---- MODULE Spec2Model ----
(***************************************************************************)
(* PureCheck: the nutrition analysis pipeline (src/src/helper.py) and the  *)
(* Flask handlers that drive it (src/app.py).                              *)
(*                                                                         *)
(* Numbers.  Python floats are carried as integers in fixed point:         *)
(* nutrient values in tenths of a unit (450 kcal is 4500), percentages in  *)
(* ten-thousandths of a percent (22.5 % is 225000).  With the baselines of *)
(* FSSAI_INR_BASELINE every value / baseline * 100 is exact in that unit.  *)
(*                                                                         *)
(* Text.  A Python str is a sequence of one-character strings.             *)
(*                                                                         *)
(* Dicts.  A Python dict is a function whose DOMAIN is its key set.        *)
(***************************************************************************)
EXTENDS Integers, Sequences, FiniteSets, TLC

(***************************************************************************)
(* JSON values of a nutrient profile                                       *)
(***************************************************************************)
None == [kind |-> "none", num |-> 0, str |-> <<>>]
Num(n) == [kind |-> "num", num |-> n, str |-> <<>>]
Str(s) == [kind |-> "str", num |-> 0, str |-> s]
List == [kind |-> "list", num |-> 0, str |-> <<>>]

NotAvailable == <<"N", "o", "t", " ", "A", "v", "a", "i", "l", "a", "b", "l", "e">>
NA == <<"N", "/", "A">>

EmptyDict == [k \in {} |-> 0]

\* dict.get(key, default)
Get(d, key, default) == IF key \in DOMAIN d THEN d[key] ELSE default

(***************************************************************************)
(* float(x)                                                                *)
(***************************************************************************)
DigitChars == <<"0", "1", "2", "3", "4", "5", "6", "7", "8", "9">>
IsDigit(c) == \E i \in 1..Len(DigitChars) : DigitChars[i] = c
DigitVal(c) == (CHOOSE i \in 1..Len(DigitChars) : DigitChars[i] = c) - 1
AllDigits(s) == \A i \in 1..Len(s) : IsDigit(s[i])

RECURSIVE LStrip(_)
LStrip(s) == IF s # <<>> /\ Head(s) = " " THEN LStrip(Tail(s)) ELSE s

RECURSIVE RStrip(_)
RStrip(s) ==
    IF s # <<>> /\ s[Len(s)] = " " THEN RStrip(SubSeq(s, 1, Len(s) - 1)) ELSE s

Strip(s) == RStrip(LStrip(s))

RECURSIVE DigitsValue(_)
DigitsValue(s) ==
    IF s = <<>> THEN 0
    ELSE 10 * DigitsValue(SubSeq(s, 1, Len(s) - 1)) + DigitVal(s[Len(s)])

\* Index of the first "." of s, or 0
DotIndex(s) ==
    IF \E i \in 1..Len(s) : s[i] = "."
    THEN CHOOSE i \in 1..Len(s) : s[i] = "." /\ \A j \in 1..(i - 1) : s[j] # "."
    ELSE 0

\* float() of a str: optional sign, digits, optional fraction; the value in
\* tenths (fraction digits after the first are below the model's precision).
FloatOfParts(negative, ip, fp) ==
    IF AllDigits(ip) /\ AllDigits(fp) /\ Len(ip) + Len(fp) > 0
    THEN [ok |-> TRUE,
          val |-> (IF negative THEN 0 - 1 ELSE 1)
                    * (10 * DigitsValue(ip) + (IF fp = <<>> THEN 0 ELSE DigitVal(fp[1]))),
          exc |-> ""]
    ELSE [ok |-> FALSE, val |-> 0, exc |-> "ValueError"]

FloatOfBody(negative, body, dot) ==
    IF dot = 0
    THEN FloatOfParts(negative, body, <<>>)
    ELSE FloatOfParts(negative, SubSeq(body, 1, dot - 1), SubSeq(body, dot + 1, Len(body)))

FloatOfSigned(negative, body) == FloatOfBody(negative, body, DotIndex(body))

FloatOfStripped(t) ==
    IF t # <<>> /\ Head(t) \in {"+", "-"}
    THEN FloatOfSigned(Head(t) = "-", Tail(t))
    ELSE FloatOfSigned(FALSE, t)

FloatOfStr(s) == FloatOfStripped(Strip(s))

PyFloat(v) ==
    CASE v.kind = "num" -> [ok |-> TRUE, val |-> v.num, exc |-> ""]
      [] v.kind = "str" -> FloatOfStr(v.str)
      [] OTHER -> [ok |-> FALSE, val |-> 0, exc |-> "TypeError"]

(***************************************************************************)
(* Nutrient Baseline Table (app.py) and Normalization (helper.py)          *)
(***************************************************************************)
FSSAI_INR_BASELINE ==
    [energy_kcal |-> 2000, total_fat_g |-> 65, saturated_fat_g |-> 20,
     carbohydrates_g |-> 300, sugars_g |-> 50, added_sugars_g |-> 30,
     protein_g |-> 50, sodium_mg |-> 2000, fiber_g |-> 25]

\* the list `nutrients` of calculate_nutrient_analysis
nutrients == <<"energy_kcal", "sugars_g", "saturated_fat_g", "sodium_mg", "protein_g">>
Mandatory == {nutrients[i] : i \in 1..Len(nutrients)}

\* a / b for b # 0, rounded toward zero (exact for every baseline of the table)
QuotAbs(a, b, q) == IF (a < 0) = (b < 0) THEN q ELSE 0 - q
Quot(a, b) ==
    QuotAbs(a, b, (IF a < 0 THEN 0 - a ELSE a) \div (IF b < 0 THEN 0 - b ELSE b))

\* value / baseline * 100: value in tenths, the result in 1/10000 percent
PercentOf(value, baseline) == Quot(value * 100000, baseline)

\* sentinel test shared by the mandatory loop and the fiber branch
IsSentinel(v) ==
    \/ v.kind = "none"
    \/ v.kind = "str" /\ v.str \in {NotAvailable, NA}

\* the coercion written without the sentinel test and the try/except
RaiseOnError(f) == [raised |-> ~f.ok, exc |-> f.exc, val |-> f.val]
CoerceValueUnguarded(product_nutrition, nutrient) ==
    RaiseOnError(PyFloat(Get(product_nutrition, nutrient, None)))

\* lines 356-364: value = product_nutrition.get(nutrient, 0), then coercion
CoerceFloat(f) ==
    IF f.ok
    THEN [raised |-> FALSE, exc |-> "", val |-> f.val]
    ELSE IF f.exc \in {"ValueError", "TypeError"}
         THEN [raised |-> FALSE, exc |-> "", val |-> 0]
         ELSE [raised |-> TRUE, exc |-> f.exc, val |-> 0]

CoerceGot(value) ==
    IF IsSentinel(value)
    THEN [raised |-> FALSE, exc |-> "", val |-> 0]
    ELSE CoerceFloat(PyFloat(value))

CoerceValue(product_nutrition, nutrient) ==
    CoerceGot(Get(product_nutrition, nutrient, Num(0)))

\* "(value / baseline * 100) if value and baseline else 0"
MandatoryPercent(value, baseline) ==
    IF value # 0 /\ baseline # 0 THEN PercentOf(value, baseline) ELSE 0

\* lines 366-377: one entry of the analysis
EntryOf(value, baseline) ==
    [per_100g |-> value,
     inr_baseline |-> baseline,
     percent_of_inr |-> MandatoryPercent(value, baseline)]

MandatoryEntry(value, fssai_inr_baseline, nutrient) ==
    EntryOf(value, Get(fssai_inr_baseline, nutrient, 1))

\* fiber coerced like a mandatory nutrient
FiberForcedOf(c, baseline) ==
    [raised |-> FALSE, exc |-> "", include |-> TRUE, entry |-> EntryOf(c.val, baseline)]

FiberPartForced(product_nutrition, fssai_inr_baseline) ==
    FiberForcedOf(CoerceValue(product_nutrition, "fiber_g"), fssai_inr_baseline["fiber_g"])

NoEntry == [per_100g |-> 0, inr_baseline |-> 0, percent_of_inr |-> 0]

\* lines 379-390: "Add fiber if available"
FiberOmitted(raised, exc) ==
    [raised |-> raised, exc |-> exc, include |-> FALSE, entry |-> NoEntry]

FiberFloat(f, fssai_inr_baseline) ==
    IF ~f.ok
    THEN IF f.exc \in {"ValueError", "TypeError"}
         THEN FiberOmitted(FALSE, "")
         ELSE FiberOmitted(TRUE, f.exc)
    ELSE IF "fiber_g" \notin DOMAIN fssai_inr_baseline
         THEN FiberOmitted(TRUE, "KeyError")
         ELSE IF fssai_inr_baseline["fiber_g"] = 0
              THEN FiberOmitted(TRUE, "ZeroDivisionError")
              ELSE [raised |-> FALSE, exc |-> "", include |-> TRUE,
                    entry |-> [per_100g |-> f.val,
                               inr_baseline |-> fssai_inr_baseline["fiber_g"],
                               percent_of_inr |->
                                   PercentOf(f.val, fssai_inr_baseline["fiber_g"])]]

FiberGot(fiber, fssai_inr_baseline) ==
    IF IsSentinel(fiber)
    THEN FiberOmitted(FALSE, "")
    ELSE FiberFloat(PyFloat(fiber), fssai_inr_baseline)

FiberPart(product_nutrition, fssai_inr_baseline) ==
    FiberGot(Get(product_nutrition, "fiber_g", None), fssai_inr_baseline)

\* calculate_nutrient_analysis: [raised, exc, analysis]
FirstRaised(co, bad) == co[nutrients[CHOOSE i \in bad : \A j \in bad : i <= j]]

AnalysisOf(co, fib, bad, fssai_inr_baseline) ==
    IF bad # {}
    THEN [raised |-> TRUE, exc |-> FirstRaised(co, bad).exc, analysis |-> EmptyDict]
    ELSE IF fib.raised
         THEN [raised |-> TRUE, exc |-> fib.exc, analysis |-> EmptyDict]
         ELSE [raised |-> FALSE, exc |-> "",
               analysis |->
                   [k \in Mandatory \cup (IF fib.include THEN {"fiber_g"} ELSE {}) |->
                       IF k = "fiber_g" THEN fib.entry
                       ELSE MandatoryEntry(co[k].val, fssai_inr_baseline, k)]]

AnalysisFrom(co, fib, fssai_inr_baseline) ==
    AnalysisOf(co, fib, {i \in 1..Len(nutrients) : co[nutrients[i]].raised},
               fssai_inr_baseline)

calculate_nutrient_analysis(product_nutrition, fssai_inr_baseline) ==
    AnalysisFrom([n \in Mandatory |-> CoerceValue(product_nutrition, n)],
                 FiberPart(product_nutrition, fssai_inr_baseline),
                 fssai_inr_baseline)

(***************************************************************************)
(* Model replies.  A reply is a sequence of tokens: "{" and "}", "fence"   *)
(* (the three backquotes of a code fence), the tag "json", whitespace " ", *)
(* prose "w", and member                                                   *)
(* tokens, each standing for a group of "key": value pairs of a JSON       *)
(* object (VisionTable, ScoringTable give the pairs).  A nested "{...}"    *)
(* inside an object stands for a member whose value is an object.          *)
(***************************************************************************)
ScenarioProfile ==
    [energy_kcal |-> Num(4500), sugars_g |-> Num(250), saturated_fat_g |-> Num(80),
     sodium_mg |-> Num(2000), protein_g |-> Num(60), fiber_g |-> Num(20)]

\* every mandatory nutrient present, fiber marked "Not Available"
NoFiberProfile ==
    [energy_kcal |-> Num(1200), sugars_g |-> Num(0), saturated_fat_g |-> Str(<<"1", ".", "5">>),
     sodium_mg |-> Num(4000), protein_g |-> Num(100), fiber_g |-> Str(NotAvailable)]

\* a label without a protein line: the key is missing
SparseProfile ==
    [energy_kcal |-> Num(4500), sugars_g |-> Str(NA), saturated_fat_g |-> None,
     sodium_mg |-> Num(2000)]

VisionTable ==
    [p_scenario |-> [product_name |-> "Choco Bar", product_type |-> "Solid",
                     nutritional_info_per_100g |-> ScenarioProfile],
     p_nofiber |-> [product_name |-> "Soup", product_type |-> "Liquid",
                    nutritional_info_per_100g |-> NoFiberProfile],
     p_sparse |-> [product_name |-> "Candy",
                   nutritional_info_per_100g |-> SparseProfile],
     p_name |-> [product_name |-> "Unlabelled"]]

ScoringTable ==
    [r_b64 |-> [inr_score |-> 64, grade |-> "B"],
     r_a150 |-> [inr_score |-> 150, grade |-> "A"],
     r_warn |-> [health_warnings |-> <<"High sugar">>]]

MemberTokens == DOMAIN VisionTable \cup DOMAIN ScoringTable

\* number of "{" minus number of "}" among s[1..i]
Depth(s, i) ==
    Cardinality({j \in 1..i : s[j] = "{"}) - Cardinality({j \in 1..i : s[j] = "}"})

\* json.loads accepts exactly one object, whitespace around and inside it
WellFormedStripped(t) ==
    /\ Len(t) >= 2
    /\ t[1] = "{"
    /\ t[Len(t)] = "}"
    /\ \A i \in 1..Len(t) : t[i] \in {"{", "}", " "} \cup MemberTokens
    /\ \A i \in 1..(Len(t) - 1) : Depth(t, i) >= 1
    /\ Depth(t, Len(t)) = 0

JsonWellFormed(s) == WellFormedStripped(Strip(s))

\* the member tokens directly inside the outer object, in order
RECURSIVE TopMembers(_, _)
TopMembers(t, i) ==
    IF i > Len(t) THEN <<>>
    ELSE IF t[i] \in MemberTokens /\ Depth(t, i) = 1
         THEN <<t[i]>> \o TopMembers(t, i + 1)
         ELSE TopMembers(t, i + 1)

\* the dict of the members: a later pair replaces an earlier one with its key
RECURSIVE DictOf(_, _)
DictOf(ms, table) ==
    IF ms = <<>> THEN EmptyDict
    ELSE IF ms[Len(ms)] \in DOMAIN table
         THEN table[ms[Len(ms)]] @@ DictOf(SubSeq(ms, 1, Len(ms) - 1), table)
         ELSE DictOf(SubSeq(ms, 1, Len(ms) - 1), table)

\* json.loads(s): [ok, exc, obj]
JsonLoads(s, table) ==
    IF JsonWellFormed(s)
    THEN [ok |-> TRUE, exc |-> "", obj |-> DictOf(TopMembers(Strip(s), 1), table)]
    ELSE [ok |-> FALSE, exc |-> "JSONDecodeError", obj |-> EmptyDict]

\* str.find(tok, start) on 1-based positions: first i >= start with s[i] = tok, or 0
Find(s, tok, start) ==
    IF \E i \in start..Len(s) : s[i] = tok
    THEN CHOOSE i \in start..Len(s) : s[i] = tok /\ \A j \in start..(i - 1) : s[j] # tok
    ELSE 0

\* first position of "fence" directly followed by "json", or 0
FindJsonFence(s) ==
    IF \E i \in 1..(Len(s) - 1) : s[i] = "fence" /\ s[i + 1] = "json"
    THEN CHOOSE i \in 1..(Len(s) - 1) :
             /\ s[i] = "fence" /\ s[i + 1] = "json"
             /\ \A j \in 1..(i - 1) : ~(s[j] = "fence" /\ s[j + 1] = "json")
    ELSE 0

\* result_text[json_start:json_end] with json_end = find(...): when the closing
\* fence is not found find gives -1 and the slice drops the last element
SliceTo(s, first, close) ==
    IF close = 0 THEN SubSeq(s, first, Len(s) - 1) ELSE SubSeq(s, first, close - 1)

SliceToFence(s, first) == SliceTo(s, first, Find(s, "fence", first))

\* lines 129-138: the text handed to json.loads
JsonStrAt(result_text, tagged, plain) ==
    IF tagged # 0
    THEN Strip(SliceToFence(result_text, tagged + 2))
    ELSE IF plain # 0
         THEN Strip(SliceToFence(result_text, plain + 1))
         ELSE result_text

JsonStrOf(result_text) ==
    JsonStrAt(result_text, FindJsonFence(result_text), Find(result_text, "fence", 1))

\* An external model call either raises or replies with text
Raises == [raises |-> TRUE, text |-> <<>>]
Replies(text) == [raises |-> FALSE, text |-> text]

\* extract_nutrition_info_gpt4o: [raised, exc, result]
ExtractionOf(parsed, result_text) ==
    IF parsed.ok
    THEN [raised |-> FALSE, exc |-> "",
          result |-> [success |-> TRUE, data |-> parsed.obj,
                      raw_response |-> result_text]]
    ELSE [raised |-> FALSE, exc |-> "",
          result |-> [success |-> FALSE, error |-> "Failed to parse JSON",
                      raw_response |-> result_text]]

extract_nutrition_info_gpt4o(vision) ==
    IF vision.raises
    THEN [raised |-> TRUE, exc |-> "APIError", result |-> EmptyDict]
    ELSE ExtractionOf(JsonLoads(JsonStrOf(vision.text), VisionTable), vision.text)

\* re.search of an opening brace, anything, a closing brace: the match is
\* greedy, it runs from the first "{" to the last "}"
MatchOf(text, first, closers) ==
    IF first = 0 \/ closers = {}
    THEN [found |-> FALSE, group |-> <<>>]
    ELSE [found |-> TRUE,
          group |-> SubSeq(text, first, CHOOSE i \in closers : \A j \in closers : j <= i)]

MatchFrom(text, first) ==
    MatchOf(text, first, {i \in 1..Len(text) : text[i] = "}" /\ i > first})

RegexMatch(text) == MatchFrom(text, Find(text, "{", 1))

\* the keys the reasoning prompt reads with product_data[...][...]
PromptKeysPresent(product_data) ==
    /\ "nutritional_info_per_100g" \in DOMAIN product_data
    /\ Mandatory \subseteq DOMAIN product_data["nutritional_info_per_100g"]

NoneResult == [isNone |-> TRUE, value |-> EmptyDict]
Some(v) == [isNone |-> FALSE, value |-> v]

\* calculate_inr_score: [raised, exc, modelCalls, ret]
ScoreOfParsed(parsed) ==
    IF parsed.ok
    THEN [raised |-> FALSE, exc |-> "", modelCalls |-> 1, ret |-> Some(parsed.obj)]
    ELSE [raised |-> TRUE, exc |-> parsed.exc, modelCalls |-> 1, ret |-> NoneResult]

ScoreOfMatch(json_match) ==
    IF ~json_match.found
    THEN [raised |-> FALSE, exc |-> "", modelCalls |-> 1, ret |-> NoneResult]
    ELSE ScoreOfParsed(JsonLoads(json_match.group, ScoringTable))

calculate_inr_score(product_data, analysis, fssai_inr_baseline, scoring) ==
    IF ~PromptKeysPresent(product_data) \/ ~(Mandatory \subseteq DOMAIN analysis)
    THEN [raised |-> TRUE, exc |-> "KeyError", modelCalls |-> 0, ret |-> NoneResult]
    ELSE IF scoring.raises
         THEN [raised |-> TRUE, exc |-> "APIError", modelCalls |-> 1, ret |-> NoneResult]
         ELSE ScoreOfMatch(RegexMatch(scoring.text))

(***************************************************************************)
(* The chain of create_nutrition_analysis_chain.  A step gives             *)
(* [raised, exc, out] and the number of calls it made.                     *)
(***************************************************************************)
NoneStr == [isNone |-> TRUE, value |-> ""]
SomeStr(s) == [isNone |-> FALSE, value |-> s]

\* lines 415-433
ExtractStepOut(image_path, extraction_result) ==
    IF extraction_result.raised
    THEN [raised |-> TRUE, exc |-> extraction_result.exc, out |-> EmptyDict]
    ELSE IF ~extraction_result.result.success
         THEN [raised |-> FALSE, exc |-> "",
               out |-> [success |-> FALSE,
                        error |-> "Nutrition extraction failed",
                        details |-> SomeStr(extraction_result.result.error),
                        image_path |-> image_path]]
         ELSE [raised |-> FALSE, exc |-> "",
               out |-> [success |-> TRUE,
                        image_path |-> image_path,
                        product_data |-> extraction_result.result.data]]

extract_nutrition_step(image_path, vision) ==
    ExtractStepOut(image_path, extract_nutrition_info_gpt4o(vision))

\* the step without its "pass through errors" guard
AnalysisStepOut(inputs, product_data, n) ==
    IF n.raised
    THEN [raised |-> TRUE, exc |-> n.exc, normCalls |-> 1, out |-> EmptyDict]
    ELSE [raised |-> FALSE, exc |-> "", normCalls |-> 1,
          out |-> [success |-> TRUE,
                   image_path |-> inputs.image_path,
                   product_data |-> product_data,
                   analysis |-> n.analysis]]

calculate_analysis_step_unguarded(inputs) ==
    AnalysisStepOut(inputs, Get(inputs, "product_data", EmptyDict),
        calculate_nutrient_analysis(
            Get(Get(inputs, "product_data", EmptyDict),
                "nutritional_info_per_100g", EmptyDict),
            FSSAI_INR_BASELINE))

\* lines 436-453
calculate_analysis_step(inputs) ==
    IF ~Get(inputs, "success", FALSE)
    THEN [raised |-> FALSE, exc |-> "", normCalls |-> 0, out |-> inputs]
    ELSE IF "nutritional_info_per_100g" \notin DOMAIN inputs.product_data
         THEN [raised |-> TRUE, exc |-> "KeyError", normCalls |-> 0, out |-> EmptyDict]
         ELSE AnalysisStepOut(inputs, inputs.product_data,
                  calculate_nutrient_analysis(
                      inputs.product_data["nutritional_info_per_100g"],
                      FSSAI_INR_BASELINE))

\* lines 456-484
InrStepOut(inputs, inr) ==
    IF inr.raised
    THEN [raised |-> TRUE, exc |-> inr.exc, ratingCalls |-> 1,
          modelCalls |-> inr.modelCalls, out |-> EmptyDict]
    ELSE IF inr.ret.isNone
         THEN [raised |-> FALSE, exc |-> "", ratingCalls |-> 1,
               modelCalls |-> inr.modelCalls,
               out |-> [success |-> FALSE,
                        error |-> "INR score calculation failed",
                        image_path |-> inputs.image_path]]
         ELSE [raised |-> FALSE, exc |-> "", ratingCalls |-> 1,
               modelCalls |-> inr.modelCalls,
               out |-> [success |-> TRUE,
                        image_path |-> inputs.image_path,
                        product_data |-> inputs.product_data,
                        analysis |-> inputs.analysis,
                        inr_result |-> inr.ret.value]]

calculate_inr_step(inputs, scoring) ==
    IF ~Get(inputs, "success", FALSE)
    THEN [raised |-> FALSE, exc |-> "", ratingCalls |-> 0, modelCalls |-> 0,
          out |-> inputs]
    ELSE InrStepOut(inputs,
             calculate_inr_score(inputs.product_data, inputs.analysis,
                                 FSSAI_INR_BASELINE, scoring))

(***************************************************************************)
(* Upload validation (app.py 117-134)                                      *)
(***************************************************************************)
UpperChars == <<"A", "B", "C", "D", "E", "F", "G", "H", "I", "J", "K", "L", "M",
                "N", "O", "P", "Q", "R", "S", "T", "U", "V", "W", "X", "Y", "Z">>
LowerChars == <<"a", "b", "c", "d", "e", "f", "g", "h", "i", "j", "k", "l", "m",
                "n", "o", "p", "q", "r", "s", "t", "u", "v", "w", "x", "y", "z">>

LowerChar(c) ==
    IF \E i \in 1..Len(UpperChars) : UpperChars[i] = c
    THEN LowerChars[CHOOSE i \in 1..Len(UpperChars) : UpperChars[i] = c]
    ELSE c

Lower(s) == [i \in 1..Len(s) |-> LowerChar(s[i])]

\* filename.rsplit('.', 1)[1]: what follows the last "."
AfterIndex(s, dots) == SubSeq(s, (CHOOSE i \in dots : \A j \in dots : j <= i) + 1, Len(s))
AfterLastDot(s) == AfterIndex(s, {i \in 1..Len(s) : s[i] = "."})

ALLOWED_EXTENSIONS ==
    {<<"p", "n", "g">>, <<"j", "p", "g">>, <<"j", "p", "e", "g">>,
     <<"g", "i", "f">>, <<"w", "e", "b", "p">>}

allowed_file(filename, allowed_extensions) ==
    /\ \E i \in 1..Len(filename) : filename[i] = "."
    /\ Lower(AfterLastDot(filename)) \in allowed_extensions

RECURSIVE StripDots(_)
StripDots(s) ==
    IF s # <<>> /\ Head(s) \in {".", "_"} THEN StripDots(Tail(s))
    ELSE IF s # <<>> /\ s[Len(s)] \in {".", "_"}
         THEN StripDots(SubSeq(s, 1, Len(s) - 1))
         ELSE s

\* secure_filename: path separators become "_", leading and trailing "." and
\* "_" are stripped
secure_filename(filename) ==
    StripDots([i \in 1..Len(filename) |->
                  IF filename[i] \in {"/", " "} THEN "_" ELSE filename[i]])

(***************************************************************************)
(* State                                                                   *)
(***************************************************************************)
VARIABLES
    session,    \* the Flask session: a dict, "current_product" its only key
    uploads,    \* per request handler: position, locals, call counts, response
    chatResp,   \* the last /chat response and the calls that request made
    norm,       \* a direct call of calculate_nutrient_analysis
    clearResp,  \* the last /clear-session response
    chatReq,    \* the last /chat request: its body, and whether its session had a product
    parse       \* a direct call of one of the two reply parsers

vars == <<session, uploads, chatResp, norm, clearResp, chatReq, parse>>

\* two requests of the session can be in the server at once
Req == {1, 2}

\* datetime.now() of an upload, in seconds
Timestamps == {0}

NoResponse == [status |-> 0, body |-> EmptyDict]
NoPath == [dir |-> "", ts |-> 0, name |-> <<>>]

NewUpload ==
    [pc |-> "idle", filepath |-> NoPath, chain |-> EmptyDict, exc |-> "",
     extraction |-> "", normCalls |-> 0, ratingCalls |-> 0, modelCalls |-> 0,
     resp |-> NoResponse]

NoChat == [status |-> 0, body |-> EmptyDict, exc |-> "", ragCalls |-> 0, directCalls |-> 0]
NormIdle == [pc |-> "idle", profile |-> EmptyDict, result |-> EmptyDict]
NoClear == [status |-> 0, body |-> EmptyDict, exc |-> ""]
NoChatReq == [data |-> EmptyDict, product |-> FALSE]
ParseIdle == [pc |-> "idle", fn |-> "", text |-> <<>>, result |-> EmptyDict]

Init ==
    /\ session = EmptyDict
    /\ uploads = [r \in Req |-> NewUpload]
    /\ chatResp = NoChat
    /\ norm = NormIdle
    /\ clearResp = NoClear
    /\ chatReq = NoChatReq
    /\ parse = ParseIdle

\* request.files of an upload: no "image" field, or a file with its name
UploadForms ==
    {EmptyDict,
     [image |-> <<>>],
     [image |-> <<"a", ".", "t", "x", "t">>],
     [image |-> <<"p", "n", "g">>],
     [image |-> <<"a", ".", "P", "N", "G">>]}

VisionOutcomes ==
    {Raises,
     Replies(<<"w">>),
     Replies(<<"{", "p_scenario", "}">>),
     Replies(<<"fence", "json", " ", "{", "p_nofiber", "}", " ", "fence">>),
     Replies(<<"{", "p_sparse", "}">>),
     Replies(<<"{", "p_name", "}">>)}

ScoringOutcomes ==
    {Raises,
     Replies(<<"w">>),
     Replies(<<"{", "w", "}">>),
     Replies(<<"{", "r_b64", "}">>),
     Replies(<<"w", "{", "r_a150", "}">>),
     Replies(<<"{", "r_warn", "}">>)}

(***************************************************************************)
(* POST /upload (app.py 114-168)                                           *)
(***************************************************************************)
Respond(r, status, body) ==
    uploads' = [uploads EXCEPT ![r] =
                   [NewUpload EXCEPT !.pc = "done",
                                     !.resp = [status |-> status, body |-> body]]]

\* lines 117-134: validation, then the file is saved under its timestamped name
UploadStart(r, files, now) ==
    /\ uploads[r].pc \in {"idle", "done"}
    /\ IF "image" \notin DOMAIN files
       THEN Respond(r, 400, [error |-> "No image file provided"])
       ELSE IF files["image"] = <<>>
            THEN Respond(r, 400, [error |-> "No file selected"])
            ELSE IF ~allowed_file(files["image"], ALLOWED_EXTENSIONS)
                 THEN Respond(r, 400, [error |-> "Invalid file type"])
                 ELSE uploads' = [uploads EXCEPT ![r] =
                          [NewUpload EXCEPT
                              !.pc = "extract",
                              !.filepath = [dir |-> "uploads", ts |-> now,
                                            name |-> secure_filename(files["image"])]]]
    /\ UNCHANGED <<session, chatResp, norm, clearResp, chatReq, parse>>

\* line 138, first step of the chain
ExtractDone(r, s) ==
    uploads' = [uploads EXCEPT
        ![r].pc = IF s.raised THEN "respond" ELSE "analysis",
        ![r].exc = s.exc,
        ![r].chain = s.out,
        ![r].extraction = IF s.raised THEN "raised"
                          ELSE IF s.out.success THEN "ok" ELSE "failed"]

ExtractStep(r, vision) ==
    /\ uploads[r].pc = "extract"
    /\ ExtractDone(r, extract_nutrition_step(uploads[r].filepath, vision))
    /\ UNCHANGED <<session, chatResp, norm, clearResp, chatReq, parse>>

\* line 138, second step of the chain
AnalysisDone(r, s) ==
    uploads' = [uploads EXCEPT
        ![r].pc = IF s.raised THEN "respond" ELSE "inr",
        ![r].exc = s.exc,
        ![r].chain = s.out,
        ![r].normCalls = @ + s.normCalls]

AnalysisStep(r) ==
    /\ uploads[r].pc = "analysis"
    /\ AnalysisDone(r, calculate_analysis_step(uploads[r].chain))
    /\ UNCHANGED <<session, chatResp, norm, clearResp, chatReq, parse>>

\* line 138, third step of the chain
InrDone(r, s) ==
    uploads' = [uploads EXCEPT
        ![r].pc = "respond",
        ![r].exc = s.exc,
        ![r].chain = s.out,
        ![r].ratingCalls = @ + s.ratingCalls,
        ![r].modelCalls = @ + s.modelCalls]

InrStep(r, scoring) ==
    /\ uploads[r].pc = "inr"
    /\ InrDone(r, calculate_inr_step(uploads[r].chain, scoring))
    /\ UNCHANGED <<session, chatResp, norm, clearResp, chatReq, parse>>

\* the slot updated in place: the rating and image of the new analysis are
\* written into the product that is already there
CurrentProductOfInPlace(chain_result, filepath) ==
    IF "current_product" \in DOMAIN session
    THEN [session["current_product"] EXCEPT
             !.inr_result = chain_result.inr_result,
             !.image_path = filepath]
    ELSE [product_data |-> chain_result.product_data,
          analysis |-> chain_result.analysis,
          inr_result |-> chain_result.inr_result,
          image_path |-> filepath]

\* lines 147-157: the value stored under session['current_product']
CurrentProductOf(chain_result, filepath) ==
    [product_data |-> chain_result.product_data,
     analysis |-> chain_result.analysis,
     inr_result |-> chain_result.inr_result,
     image_path |-> filepath]

\* the handler dropping the stored product whenever the new analysis fails
FinishWithDropsStale(r, chain_result) ==
    IF uploads[r].exc # ""
    THEN /\ Respond(r, 500, [error |-> uploads[r].exc])
         /\ session' = [k \in DOMAIN session \ {"current_product"} |-> session[k]]
    ELSE IF ~chain_result.success
         THEN /\ Respond(r, 500,
                    [error |-> Get(chain_result, "error", "Analysis failed"),
                     details |-> Get(chain_result, "details", NoneStr)])
              /\ session' = [k \in DOMAIN session \ {"current_product"} |-> session[k]]
         ELSE /\ session' = [current_product |->
                     CurrentProductOf(chain_result, uploads[r].filepath)]
              /\ Respond(r, 200,
                    [success |-> TRUE,
                     product_data |-> chain_result.product_data,
                     analysis |-> chain_result.analysis,
                     inr_result |-> chain_result.inr_result,
                     image_path |-> [ts |-> uploads[r].filepath.ts,
                                     name |-> uploads[r].filepath.name]])

\* lines 140-168: the chain has returned or raised
FinishWith(r, chain_result) ==
    IF uploads[r].exc # ""
    THEN /\ Respond(r, 500, [error |-> uploads[r].exc])
         /\ UNCHANGED session
    ELSE IF ~chain_result.success
         THEN /\ Respond(r, 500,
                    [error |-> Get(chain_result, "error", "Analysis failed"),
                     details |-> Get(chain_result, "details", NoneStr)])
              /\ UNCHANGED session
         ELSE /\ session' = [current_product |->
                     CurrentProductOf(chain_result, uploads[r].filepath)]
              /\ Respond(r, 200,
                    [success |-> TRUE,
                     product_data |-> chain_result.product_data,
                     analysis |-> chain_result.analysis,
                     inr_result |-> chain_result.inr_result,
                     image_path |-> [ts |-> uploads[r].filepath.ts,
                                     name |-> uploads[r].filepath.name]])

UploadFinish(r) ==
    /\ uploads[r].pc = "respond"
    /\ FinishWith(r, uploads[r].chain)
    /\ UNCHANGED <<chatResp, norm, clearResp, chatReq, parse>>

(***************************************************************************)
(* POST /chat (app.py 171-233) and POST /clear-session (235-239)           *)
(***************************************************************************)
ChatBodies == {EmptyDict, [message |-> ""], [message |-> "is it healthy?"]}
CallOutcomes == {"ok", "raise"}

\* the f-string of lines 189-218 reads these with [...] and formats the score
ProductContextRaises(current_product) ==
    \/ ~PromptKeysPresent(current_product.product_data)
    \/ "inr_score" \notin DOMAIN current_product.inr_result
    \/ "grade" \notin DOMAIN current_product.inr_result

\* the try block without the product branch: every question goes to the RAG chain
ChatAnswerAlwaysRag(sess, msg, outcome) ==
    [raised |-> outcome = "raise",
     exc |-> IF outcome = "raise" THEN "APIError" ELSE "",
     text |-> IF outcome = "raise" THEN "" ELSE "rag answer",
     ragCalls |-> 1, directCalls |-> 0]

\* lines 185-226: the body of the try block; [raised, text, ragCalls, directCalls]
ChatAnswer(sess, msg, outcome) ==
    IF "current_product" \in DOMAIN sess
    THEN IF ProductContextRaises(sess["current_product"])
         THEN [raised |-> TRUE, exc |-> "KeyError", text |-> "",
               ragCalls |-> 0, directCalls |-> 0]
         ELSE [raised |-> outcome = "raise",
               exc |-> IF outcome = "raise" THEN "APIError" ELSE "",
               text |-> IF outcome = "raise" THEN "" ELSE "product answer",
               ragCalls |-> 0, directCalls |-> 1]
    ELSE [raised |-> outcome = "raise",
          exc |-> IF outcome = "raise" THEN "APIError" ELSE "",
          text |-> IF outcome = "raise" THEN "" ELSE "rag answer",
          ragCalls |-> 1, directCalls |-> 0]

\* the handler without its try/except: an exception of the call leaves it
ChatUncaughtOf(msg, a) ==
    IF msg = ""
    THEN [status |-> 400,
          body |-> [success |-> FALSE, error |-> "No message provided"],
          exc |-> "", ragCalls |-> 0, directCalls |-> 0]
    ELSE IF a.raised
         THEN [status |-> 0, body |-> EmptyDict, exc |-> a.exc,
               ragCalls |-> a.ragCalls, directCalls |-> a.directCalls]
         ELSE [status |-> 200,
               body |-> [success |-> TRUE, response |-> a.text],
               exc |-> "", ragCalls |-> a.ragCalls, directCalls |-> a.directCalls]

chat_uncaught(sess, data, outcome) ==
    ChatUncaughtOf(Get(data, "message", ""),
                   ChatAnswer(sess, Get(data, "message", ""), outcome))

\* the handler without the check of lines 178-179: an empty message is
\* answered like any other
ChatResponseUnvalidated(msg, a) ==
    IF a.raised
    THEN [status |-> 500,
          body |-> [success |-> FALSE, error |-> a.exc],
          exc |-> "", ragCalls |-> a.ragCalls, directCalls |-> a.directCalls]
    ELSE [status |-> 200,
          body |-> [success |-> TRUE, response |-> a.text],
          exc |-> "", ragCalls |-> a.ragCalls, directCalls |-> a.directCalls]

\* the whole handler: [status, body, exc, ragCalls, directCalls]; exc is the
\* exception that leaves the handler, "" when none does
ChatResponseOf(msg, a) ==
    IF msg = ""
    THEN [status |-> 400,
          body |-> [success |-> FALSE, error |-> "No message provided"],
          exc |-> "", ragCalls |-> 0, directCalls |-> 0]
    ELSE IF a.raised
         THEN [status |-> 500,
               body |-> [success |-> FALSE, error |-> a.exc],
               exc |-> "", ragCalls |-> a.ragCalls, directCalls |-> a.directCalls]
         ELSE [status |-> 200,
               body |-> [success |-> TRUE, response |-> a.text],
               exc |-> "", ragCalls |-> a.ragCalls, directCalls |-> a.directCalls]

chat(sess, data, outcome) ==
    ChatResponseOf(Get(data, "message", ""),
                   ChatAnswer(sess, Get(data, "message", ""), outcome))

Chat(data, outcome) ==
    /\ chatResp' = chat(session, data, outcome)
    /\ chatReq' = [data |-> data, product |-> "current_product" \in DOMAIN session]
    /\ UNCHANGED <<session, uploads, norm, clearResp, parse>>

\* del session['current_product'] in place of the pop: KeyError without a product
clear_session_del(sess) ==
    IF "current_product" \in DOMAIN sess
    THEN [session |-> [k \in DOMAIN sess \ {"current_product"} |-> sess[k]],
          resp |-> [status |-> 200, body |-> [success |-> TRUE], exc |-> ""]]
    ELSE [session |-> sess,
          resp |-> [status |-> 0, body |-> EmptyDict, exc |-> "KeyError"]]

\* lines 235-239: session.pop('current_product', None), then {success: True}
clear_session(sess) ==
    [session |-> [k \in DOMAIN sess \ {"current_product"} |-> sess[k]],
     resp |-> [status |-> 200, body |-> [success |-> TRUE], exc |-> ""]]

ClearDone(out) ==
    /\ session' = out.session
    /\ clearResp' = out.resp

ClearSession ==
    /\ ClearDone(clear_session(session))
    /\ UNCHANGED <<uploads, chatResp, norm, chatReq, parse>>

Next ==
    \/ \E r \in Req, files \in UploadForms, now \in Timestamps :
           UploadStart(r, files, now)
    \/ \E r \in Req, vision \in VisionOutcomes : ExtractStep(r, vision)
    \/ \E r \in Req : AnalysisStep(r)
    \/ \E r \in Req, scoring \in ScoringOutcomes : InrStep(r, scoring)
    \/ \E r \in Req : UploadFinish(r)
    \/ \E data \in ChatBodies, outcome \in CallOutcomes : Chat(data, outcome)
    \/ ClearSession

Spec == Init /\ [][Next]_vars

(***************************************************************************)
(* calculate_nutrient_analysis called on its own                           *)
(***************************************************************************)
MaxDeviations == 2

ProfileKeys == Mandatory \cup {"fiber_g"}

\* what the label reader can put under a key
NormValues ==
    {None, Str(NotAvailable), Str(NA), Num(0), Num(0 - 50), Num(25),
     Str(<<"2", ".", "5">>), Str(<<" ", "7", " ">>), Str(<<"a", "b", "c">>),
     Str(<<>>), List}

\* marks a key left out of the profile
Absent == [kind |-> "absent", num |-> 0, str |-> <<>>]

\* the scenario profile with the keys of K replaced by f, or left out
ProfileWith(K, f) ==
    [k \in ProfileKeys \ {j \in K : f[j] = Absent} |->
        IF k \in K THEN f[k] ELSE ScenarioProfile[k]]

NormProfiles ==
    UNION {{ProfileWith(K, f) : f \in [K -> NormValues \cup {Absent}]} :
           K \in {S \in SUBSET ProfileKeys : Cardinality(S) <= MaxDeviations}}

InitNorm ==
    /\ session = EmptyDict
    /\ uploads = [r \in Req |-> NewUpload]
    /\ chatResp = NoChat
    /\ clearResp = NoClear
    /\ chatReq = NoChatReq
    /\ parse = ParseIdle
    /\ norm \in {[pc |-> "call", profile |-> p, result |-> EmptyDict] : p \in NormProfiles}

NormCall ==
    /\ norm.pc = "call"
    /\ norm' = [norm EXCEPT
           !.pc = "returned",
           !.result = calculate_nutrient_analysis(norm.profile, FSSAI_INR_BASELINE)]
    /\ UNCHANGED <<session, uploads, chatResp, clearResp, chatReq, parse>>

NextNorm == NormCall

SpecNorm == InitNorm /\ [][NextNorm]_vars

(***************************************************************************)
(* The two reply parsers called on their own: the parsing part of          *)
(* extract_nutrition_info_gpt4o and of calculate_inr_score                 *)
(***************************************************************************)
MaxReplyLen == 5

\* what a reply of the vision model is made of: braces, a code fence, the
\* json tag, other text, a member of the object
ExtractTokens == {"{", "}", "fence", "json", "w", "p_name"}

\* what a reply of the scoring model is made of
RatingTokens == {"{", "}", " ", "w", "r_b64"}

Texts(tokens) == UNION {[1..n -> tokens] : n \in 0..MaxReplyLen}

\* the product and analysis handed to calculate_inr_score
ScenarioProduct == VisionTable["p_scenario"]
ScenarioAnalysis ==
    calculate_nutrient_analysis(ScenarioProfile, FSSAI_INR_BASELINE).analysis

InitParse ==
    /\ session = EmptyDict
    /\ uploads = [r \in Req |-> NewUpload]
    /\ chatResp = NoChat
    /\ norm = NormIdle
    /\ clearResp = NoClear
    /\ chatReq = NoChatReq
    /\ parse \in {[pc |-> "call", fn |-> "extract", text |-> t, result |-> EmptyDict] :
                     t \in Texts(ExtractTokens)}
             \cup {[pc |-> "call", fn |-> "rating", text |-> t, result |-> EmptyDict] :
                     t \in Texts(RatingTokens)}

ExtractCall ==
    /\ parse.pc = "call"
    /\ parse.fn = "extract"
    /\ parse' = [parse EXCEPT
           !.pc = "returned",
           !.result = extract_nutrition_info_gpt4o(Replies(parse.text))]
    /\ UNCHANGED <<session, uploads, chatResp, norm, clearResp, chatReq>>

RatingCall ==
    /\ parse.pc = "call"
    /\ parse.fn = "rating"
    /\ parse' = [parse EXCEPT
           !.pc = "returned",
           !.result = calculate_inr_score(ScenarioProduct, ScenarioAnalysis,
                                          FSSAI_INR_BASELINE, Replies(parse.text))]
    /\ UNCHANGED <<session, uploads, chatResp, norm, clearResp, chatReq>>

NextParse == ExtractCall \/ RatingCall

SpecParse == InitParse /\ [][NextParse]_vars

(***************************************************************************)
(* Properties                                                              *)
(***************************************************************************)

\* C1: when the extraction stage reports a failure (or raises), neither
\* calculate_nutrient_analysis nor calculate_inr_score nor the scoring model
\* is invoked in that run, and a reported failure ends the chain with a
\* failure result, not an exception.
C1_ShortCircuit ==
    \A r \in Req :
        /\ uploads[r].extraction \in {"failed", "raised"} =>
              /\ uploads[r].normCalls = 0
              /\ uploads[r].ratingCalls = 0
              /\ uploads[r].modelCalls = 0
        /\ uploads[r].extraction = "failed" =>
              /\ uploads[r].pc \in {"analysis", "inr", "respond"}
              /\ uploads[r].exc = ""
              /\ ~uploads[r].chain.success

C1_Witness ==
    \E r \in Req :
        /\ uploads[r].extraction = "failed"
        /\ uploads[r].pc = "respond"
        /\ uploads[r].chain.error = "Nutrition extraction failed"

\* a value counts as absent: key missing, null, "Not Available" or "N/A"
ValueAbsent(profile, n) ==
    \/ n \notin DOMAIN profile
    \/ profile[n].kind = "none"
    \/ profile[n].kind = "str" /\ profile[n].str \in {NotAvailable, NA}

\* C2: for every profile and every mandatory nutrient whose value is absent,
\* Normalization returns without raising and the analysis holds the
\* nutrient's key with per_100g = 0 and percent_of_inr = 0.
C2_AbsentMandatoryIsZero ==
    norm.pc = "returned" =>
        /\ ~norm.result.raised
        /\ \A n \in Mandatory :
              ValueAbsent(norm.profile, n) =>
                  /\ n \in DOMAIN norm.result.analysis
                  /\ norm.result.analysis[n].per_100g = 0
                  /\ norm.result.analysis[n].percent_of_inr = 0

C2_Witness ==
    /\ norm.pc = "returned"
    /\ "protein_g" \notin DOMAIN norm.profile
    /\ "sugars_g" \in DOMAIN norm.profile
    /\ norm.profile["sugars_g"] = Str(NotAvailable)
    /\ norm.result.analysis["protein_g"].percent_of_inr = 0
    /\ norm.result.analysis["sugars_g"].per_100g = 0

\* fiber is present and numeric: the key is there and float() accepts the value
FiberNumeric(profile) ==
    /\ "fiber_g" \in DOMAIN profile
    /\ ~ValueAbsent(profile, "fiber_g")
    /\ PyFloat(profile["fiber_g"]).ok

\* C3: the analysis holds the key fiber_g exactly when the profile's fiber
\* value is present and numeric, and then with that value; otherwise the key
\* is left out, never set to zero.
C3_FiberIffNumeric ==
    norm.pc = "returned" =>
        /\ ~norm.result.raised
        /\ "fiber_g" \in DOMAIN norm.result.analysis <=> FiberNumeric(norm.profile)
        /\ FiberNumeric(norm.profile) =>
              norm.result.analysis["fiber_g"].per_100g =
                  PyFloat(norm.profile["fiber_g"]).val

C3_Witness ==
    /\ norm.pc = "returned"
    /\ "fiber_g" \in DOMAIN norm.profile
    /\ norm.profile["fiber_g"] = Str(NA)
    /\ "fiber_g" \notin DOMAIN norm.result.analysis
    /\ Mandatory \subseteq DOMAIN norm.result.analysis

\* the percentages of the scenario of the specification, in 1/10000 percent
ScenarioPercents ==
    [energy_kcal |-> 225000, sugars_g |-> 500000, saturated_fat_g |-> 400000,
     sodium_mg |-> 100000, protein_g |-> 120000, fiber_g |-> 80000]

\* C4: every mandatory percent_of_inr is value / baseline * 100 when value > 0
\* and baseline > 0, and 0 otherwise; the scenario profile yields 22.5, 50.0,
\* 40.0, 10.0, 12.0 and 8.0.
C4_PercentFormula ==
    norm.pc = "returned" /\ ~norm.result.raised =>
        /\ \A n \in Mandatory :
              LET e == norm.result.analysis[n]
              IN  e.percent_of_inr =
                      IF e.per_100g > 0 /\ e.inr_baseline > 0
                      THEN PercentOf(e.per_100g, e.inr_baseline)
                      ELSE 0
        /\ norm.profile = ScenarioProfile =>
              \A k \in ProfileKeys :
                  norm.result.analysis[k].percent_of_inr = ScenarioPercents[k]

\* C5: a chat request with a non-empty message calls the RAG chain exactly
\* when the session holds no current product; with a current product it makes
\* no retrieval call and whatever it answers comes from the direct call.
C5_RetrievalIffNoProduct ==
    [][(chatResp' # chatResp /\ chatResp'.status # 400) =>
          IF "current_product" \in DOMAIN session
          THEN /\ chatResp'.ragCalls = 0
               /\ chatResp'.status = 200 => chatResp'.directCalls = 1
          ELSE /\ chatResp'.ragCalls = 1
               /\ chatResp'.directCalls = 0]_vars

C5_Witness ==
    /\ "current_product" \in DOMAIN session
    /\ chatResp.status = 200
    /\ chatResp.directCalls = 1
    /\ chatResp.ragCalls = 0

\* the band of a score: A 80-100, B 60-79, C 40-59, D 20-39, E 0-19
Band(score) ==
    IF score >= 80 THEN "A"
    ELSE IF score >= 60 THEN "B"
    ELSE IF score >= 40 THEN "C"
    ELSE IF score >= 20 THEN "D"
    ELSE "E"

\* C6: every rating that reaches the session (a successful pipeline result)
\* has its score in [0,100] and the grade of the score's band.
C6_StoredRatingValid ==
    ("current_product" \in DOMAIN session
        /\ "inr_score" \in DOMAIN session["current_product"].inr_result) =>
        LET rating == session["current_product"].inr_result
        IN  /\ rating.inr_score >= 0
            /\ rating.inr_score <= 100
            /\ "grade" \in DOMAIN rating
            /\ rating.grade = Band(rating.inr_score)

\* C7: an external call that raises is turned into a failure value at its
\* stage: the chain never ends with the call's exception.
C7_ExternalFailureIsValue ==
    \A r \in Req : ~(uploads[r].pc = "respond" /\ uploads[r].exc = "APIError")

\* C8: once the scoring model has replied, the rating stage ends with a
\* value (the rating, or the failure 'INR score calculation failed' when no
\* JSON object is located or parsed), never with an exception.
C8_RatingParseFailureIsValue ==
    \A r \in Req :
        (uploads[r].pc = "respond" /\ uploads[r].modelCalls = 1
            /\ uploads[r].exc # "APIError") =>
            uploads[r].exc = ""

\* C9: no exception of the text-generation or retrieval call leaves the chat
\* handler: the request ends with 200, or with 500 and {success: false, error}.
C9_ChatNeverRaises ==
    /\ chatResp.exc = ""
    /\ chatResp.status \in {0, 200, 400, 500}
    /\ chatResp.status = 0 => chatResp = NoChat
    /\ chatResp.status = 500 =>
          /\ chatResp.body.success = FALSE
          /\ "error" \in DOMAIN chatResp.body

C9_Witness ==
    /\ chatResp.status = 500
    /\ chatResp.ragCalls + chatResp.directCalls = 1
    /\ chatResp.body.error = "APIError"

\* the slot is empty or a whole payload whose analysis is that of its product
SlotWhole(sess) ==
    "current_product" \in DOMAIN sess =>
        LET cp == sess["current_product"]
        IN  /\ DOMAIN cp = {"product_data", "analysis", "inr_result", "image_path"}
            /\ cp.analysis =
                   calculate_nutrient_analysis(
                       cp.product_data["nutritional_info_per_100g"],
                       FSSAI_INR_BASELINE).analysis

\* C10: the slot is always empty or one whole success payload, and every
\* change of the slot either empties it or replaces it by the whole result
\* (product, analysis, rating, image) of one upload whose chain succeeded.
C10_SlotWholePayload ==
    /\ []SlotWhole(session)
    /\ [][session' # session =>
             \/ "current_product" \notin DOMAIN session'
             \/ \E r \in Req :
                   /\ uploads[r].pc = "respond"
                   /\ uploads[r].exc = ""
                   /\ uploads[r].chain.success
                   /\ uploads'[r].resp.status = 200
                   /\ session'["current_product"] =
                          [product_data |-> uploads[r].chain.product_data,
                           analysis |-> uploads[r].chain.analysis,
                           inr_result |-> uploads[r].chain.inr_result,
                           image_path |-> uploads[r].filepath]]_vars

\* a product is stored while another upload holds a different successful result
C10_Witness ==
    /\ "current_product" \in DOMAIN session
    /\ \E r \in Req :
          /\ uploads[r].pc = "respond"
          /\ uploads[r].exc = ""
          /\ uploads[r].chain.success
          /\ uploads[r].chain.product_data # session["current_product"].product_data
          /\ uploads[r].chain.inr_result # session["current_product"].inr_result

ClearOk == [status |-> 200, body |-> [success |-> TRUE], exc |-> ""]

\* a step of a /chat request: it leaves its request or its response behind
ChatStep == chatResp' # chatResp \/ chatReq' # chatReq

\* a step of /clear-session: it answers, or it changes the session while no
\* upload handler moves
ClearStep == clearResp' # clearResp \/ (session' # session /\ uploads' = uploads)

\* C11: clear-session always answers 200 {success: true} and raises nothing,
\* with or without a stored product; after it the session holds no product; a
\* product comes back only through an upload that answers 200; and a non-empty
\* chat message on a session without a product goes to the retrieval chain.
C11_ClearThenRetrieval ==
    /\ [](clearResp \in {NoClear, ClearOk})
    /\ [][ClearStep =>
             /\ "current_product" \notin DOMAIN session'
             /\ clearResp' = ClearOk]_vars
    /\ [][("current_product" \notin DOMAIN session
              /\ "current_product" \in DOMAIN session') =>
             \E r \in Req : /\ uploads[r].pc = "respond"
                            /\ uploads'[r].resp.status = 200]_vars
    /\ [][(ChatStep /\ "current_product" \notin DOMAIN session
              /\ Get(chatReq'.data, "message", "") # "") =>
             /\ chatResp'.ragCalls = 1
             /\ chatResp'.directCalls = 0]_vars

\* an upload has succeeded, the product it stored has been cleared, and a
\* question on the emptied session was answered by the retrieval chain
C11_Witness ==
    /\ clearResp = ClearOk
    /\ "current_product" \notin DOMAIN session
    /\ \E r \in Req : uploads[r].pc = "done" /\ uploads[r].resp.status = 200
    /\ chatReq = [data |-> [message |-> "is it healthy?"], product |-> FALSE]
    /\ chatResp.status = 200
    /\ chatResp.ragCalls = 1

\* C12: a chat request whose message is empty or missing is answered 400
\* {success: false, error: "No message provided"}, with or without a stored
\* product, and calls neither the model nor the retrieval chain; no other
\* request is answered 400.
C12_EmptyMessageRejected ==
    Get(chatReq.data, "message", "") = "" /\ chatResp # NoChat <=>
        /\ chatResp.status = 400
        /\ chatResp.body = [success |-> FALSE, error |-> "No message provided"]
        /\ chatResp.exc = ""
        /\ chatResp.ragCalls = 0
        /\ chatResp.directCalls = 0

\* an empty message sent on a session that holds a product
C12_Witness ==
    /\ chatReq = [data |-> [message |-> ""], product |-> TRUE]
    /\ chatResp.status = 400
    /\ "current_product" \in DOMAIN session

\* C13: a reply of the vision model that cannot be parsed gives a failure
\* value, not an exception, and the raw reply text stays attached to it: in
\* the result of the extraction step and in the 500 response built from it.
C13_RawTextInFailure ==
    \A r \in Req :
        /\ uploads[r].extraction = "failed" =>
              /\ uploads[r].exc = ""
              /\ "raw_response" \in DOMAIN uploads[r].chain
        /\ (uploads[r].pc = "done"
               /\ Get(uploads[r].resp.body, "error", "") = "Nutrition extraction failed") =>
              "raw_response" \in DOMAIN uploads[r].resp.body

\* position of the closing brace that matches the opening brace at first, or 0
MatchingClose(text, first) ==
    IF \E i \in (first + 1)..Len(text) : Depth(text, i) = Depth(text, first) - 1
    THEN CHOOSE i \in (first + 1)..Len(text) :
             /\ Depth(text, i) = Depth(text, first) - 1
             /\ \A j \in (first + 1)..(i - 1) : Depth(text, j) # Depth(text, first) - 1
    ELSE 0

\* the first balanced object of a text, <<>> when there is none
FirstObject(text) ==
    IF Find(text, "{", 1) = 0 \/ MatchingClose(text, Find(text, "{", 1)) = 0
    THEN <<>>
    ELSE SubSeq(text, Find(text, "{", 1), MatchingClose(text, Find(text, "{", 1)))

\* the text holds one valid JSON object, and outside it neither a brace nor
\* a member: only fences, the json tag and other words
HoldsOneObject(text) ==
    /\ FirstObject(text) # <<>>
    /\ JsonWellFormed(FirstObject(text))
    /\ Cardinality({i \in 1..Len(text) : text[i] \in {"{", "}"} \cup MemberTokens})
           = Cardinality({i \in 1..Len(FirstObject(text)) :
                             FirstObject(text)[i] \in {"{", "}"} \cup MemberTokens})

\* C14: for a reply that holds a valid JSON object, bare, inside a code fence
\* or with other text around it, extraction succeeds and its data is exactly
\* that object.
C14_ObjectLocated ==
    (parse.pc = "returned" /\ parse.fn = "extract" /\ HoldsOneObject(parse.text)) =>
        /\ ~parse.result.raised
        /\ parse.result.result.success
        /\ parse.result.result.data =
               DictOf(TopMembers(FirstObject(parse.text), 1), VisionTable)

\* C15: the text the rating stage hands to the JSON parser is the first
\* balanced object of the reply, from the first opening brace to the closing
\* brace that matches it, so a well-formed first object is the rating returned
\* whatever follows it.
C15_FirstBalancedObject ==
    (parse.pc = "returned" /\ parse.fn = "rating" /\ FirstObject(parse.text) # <<>>) =>
        /\ RegexMatch(parse.text).found
        /\ RegexMatch(parse.text).group = FirstObject(parse.text)
        /\ JsonWellFormed(FirstObject(parse.text)) =>
              /\ ~parse.result.raised
              /\ parse.result.ret =
                     Some(DictOf(TopMembers(FirstObject(parse.text), 1), ScoringTable))

\* C16: the slot changes only when an upload answers 200 or the session is
\* cleared: a chat request, and an upload that is rejected, fails or raises,
\* leave the session as it was.
C16_SlotFrame ==
    /\ [][ChatStep => session' = session]_vars
    /\ [][\A r \in Req :
             (uploads'[r] # uploads[r] /\ uploads'[r].resp.status # 200) =>
                 session' = session]_vars
    /\ [][session' # session =>
             \/ ClearStep /\ "current_product" \notin DOMAIN session'
             \/ \E r \in Req : /\ uploads[r].pc = "respond"
                               /\ uploads[r].exc = ""
                               /\ uploads[r].chain.success
                               /\ uploads'[r].resp.status = 200]_vars

\* both handlers last answered a failure and the session still holds a
\* product: the handler that stored it has since run an upload that failed
C16_Witness ==
    /\ "current_product" \in DOMAIN session
    /\ \E r1, r2 \in Req :
          /\ r1 # r2
          /\ uploads[r1].pc = "done" /\ uploads[r1].resp.status = 400
          /\ uploads[r2].pc = "done" /\ uploads[r2].resp.status = 500
    /\ chatReq.product
    /\ chatResp.status = 500

====
